---------------------------- MODULE Spec2Model ----------------------------
(***************************************************************************)
(* A model of rauth/session.py: the three request-signing sessions         *)
(* (OAuth1Session, OAuth2Session, OflySession).                            *)
(*                                                                         *)
(* Text.  A Python string is a sequence of tokens.  A token is either one  *)
(* reserved character (" ", "&", "=", "+", "%", "/", ";"), a two-digit hex *)
(* code that follows a "%", or an unbroken run of unreserved characters    *)
(* (letters, digits, "_", ".", "-") that no operation of the program looks *)
(* inside: "a=1&b" is <<"a", "=", "1", "&", "b">>.  Python's None is the   *)
(* one-token value NoneV, which no text equals.                            *)
(*                                                                         *)
(* A Python dict is a function from keys (texts) to values.                *)
(***************************************************************************)
EXTENDS Integers, Sequences, FiniteSets, TLC

VARIABLES
    consumer_key,    \* self.consumer_key
    access_token,    \* self.access_token (NoneV when absent)
    signature,       \* self.signature: [arg |-> the constructor's argument,
                     \*   has |-> attribute set, NAME |-> its NAME]
    oauth_params,    \* self.oauth_params: [has |-> attribute set, d |-> the dict]
    hashOrder,       \* the build's dict iteration order
    now,             \* int(time())
    calls,           \* request calls begun so far
    draws,           \* random() draws so far (each nonce is a fresh one)
    pc,              \* per thread: the position inside request
    method,          \* per thread: argument method
    header_auth,     \* per thread: argument header_auth
    realm,           \* per thread: argument realm
    req_kwargs,      \* per thread: **req_kwargs
    param_i,         \* per thread: index of the loop of lines 118-119
    sig,             \* per thread: the value returned by self.signature.sign
    given,           \* per thread: the caller's req_kwargs as passed in
    signed,          \* per thread: what the signer saw each time it was invoked
    own,             \* per thread: the protocol parameters this call itself wrote
    earlier,         \* the optional parameters that earlier calls moved
    outcome,         \* per thread: how the last call ended
    wire,            \* per thread: the request handed to the transport
    qs,              \* _parse_optional_params alone: the input string
    qs_kwargs,       \* _parse_optional_params alone: req_kwargs
    qs_i,            \* _parse_optional_params alone: parameters done
    o2,              \* an OAuth2Session and the request call in progress on it
    ofly             \* an OflySession and the request or sign call in progress

vars == <<consumer_key, access_token, signature, oauth_params, hashOrder, now,
          calls, draws, pc, method, header_auth, realm, req_kwargs, param_i, sig,
          given, signed, own, earlier, outcome, wire, qs, qs_kwargs, qs_i, o2, ofly>>

-----------------------------------------------------------------------------
(* Bounds *)

MaxCalls == 2

MaxTime == 1

MaxPairs == 3

-----------------------------------------------------------------------------
(* Text *)

NoneV == <<"#None">>

EmptyDict == [k \in {} |-> <<>>]

\* A Python int held in a dict: tagged, so that no text equals it.
IntV(n) == <<"#int", ToString(n)>>

\* str(v): the text of None is "None", of an int its decimal digits, of a
\* text itself.
PyStr(v) ==
    IF v = NoneV THEN <<"None">>
    ELSE IF Len(v) = 2 /\ v[1] = "#int" THEN <<v[2]>>
    ELSE v

\* Characters that are not unreserved, with their percent codes.
HexOf ==
    [c \in {" ", "&", "=", "+", "%", "/", ";"} |->
        CASE c = " " -> "20"
          [] c = "&" -> "26"
          [] c = "=" -> "3D"
          [] c = "+" -> "2B"
          [] c = "%" -> "25"
          [] c = "/" -> "2F"
          [] c = ";" -> "3B"]

Reserved == DOMAIN HexOf

RECURSIVE QuoteSafe(_, _)
QuoteSafe(s, safe) ==
    IF s = <<>> THEN <<>>
    ELSE LET c == Head(s)
         IN  (IF c \in Reserved /\ c \notin safe THEN <<"%", HexOf[c]>> ELSE <<c>>)
             \o QuoteSafe(Tail(s), safe)

\* urllib.quote(s): safe = '/'.
Quote(s) == QuoteSafe(s, {"/"})

RECURSIVE Replace(_, _, _)
Replace(s, a, b) ==
    IF s = <<>> THEN <<>>
    ELSE (IF Head(s) = a THEN <<b>> ELSE <<Head(s)>>) \o Replace(Tail(s), a, b)

\* urllib.quote_plus(s): a space becomes "+", nothing else is safe.
QuotePlus(s) == Replace(QuoteSafe(s, {" "}), " ", "+")

\* urllib.unquote(s): "%XX" becomes its character; a "%" that no known code
\* follows is left as it is.
RECURSIVE Unquote(_)
Unquote(s) ==
    IF s = <<>> THEN <<>>
    ELSE IF Head(s) = "%" /\ Len(s) >= 2 /\ \E c \in Reserved : HexOf[c] = s[2]
         THEN <<CHOOSE c \in Reserved : HexOf[c] = s[2]>> \o Unquote(Tail(Tail(s)))
         ELSE <<Head(s)>> \o Unquote(Tail(s))

\* s.split(sep) for a set of separator characters: the pieces, in order.
RECURSIVE SplitOn(_, _)
SplitOn(s, seps) ==
    IF \A i \in 1..Len(s) : s[i] \notin seps THEN <<s>>
    ELSE LET i == CHOOSE j \in 1..Len(s) :
                      s[j] \in seps /\ \A m \in 1..(j - 1) : s[m] \notin seps
         IN  <<SubSeq(s, 1, i - 1)>> \o SplitOn(SubSeq(s, i + 1, Len(s)), seps)

\* name_value.split('=', 1), padded with '' when there is no '='.
SplitPair(nv) ==
    IF \A i \in 1..Len(nv) : nv[i] # "=" THEN <<nv, <<>>>>
    ELSE LET i == CHOOSE j \in 1..Len(nv) :
                      nv[j] = "=" /\ \A m \in 1..(j - 1) : nv[m] # "="
         IN  <<SubSeq(nv, 1, i - 1), SubSeq(nv, i + 1, Len(nv))>>

RECURSIVE QslPairs(_)
QslPairs(pieces) ==
    IF pieces = <<>> THEN <<>>
    ELSE LET nv == SplitPair(Head(pieces))
             rest == QslPairs(Tail(pieces))
         IN  \* an empty piece is skipped; so is a pair with a blank value
             \* (keep_blank_values is false)
             IF Head(pieces) = <<>> \/ nv[2] = <<>> THEN rest
             ELSE <<<<Unquote(Replace(nv[1], "+", " ")),
                      Unquote(Replace(nv[2], "+", " "))>>>> \o rest

\* urlparse.parse_qsl(s): the list of (name, value) pairs.
parse_qsl(s) == QslPairs(SplitOn(s, {"&", ";"}))

\* dict(pairs): a later pair replaces an earlier one with the same name.
DictOfPairs(pairs) ==
    [k \in {pairs[i][1] : i \in 1..Len(pairs)} |->
        pairs[CHOOSE i \in 1..Len(pairs) :
                  pairs[i][1] = k /\ \A j \in (i + 1)..Len(pairs) : pairs[j][1] # k][2]]

-----------------------------------------------------------------------------
(* Dicts *)

\* The keys the program and its callers use, in ascending (byte) order.
KeyOrder ==
    <<"Authorization", "Content-Type", "a", "access_token", "b", "c",
      "oauth_callback", "oauth_consumer_key", "oauth_nonce", "oauth_signature",
      "oauth_signature_method", "oauth_timestamp", "oauth_token",
      "oauth_verifier", "oauth_version", "oflyApiSig", "oflyAppId",
      "oflyHashMeth", "oflyTimestamp">>

\* sorted(keys)
SortedKeys(S) == SelectSeq([i \in 1..Len(KeyOrder) |-> <<KeyOrder[i]>>], LAMBDA k : k \in S)

Reverse(s) == [i \in 1..Len(s) |-> s[Len(s) + 1 - i]]

\* d.keys(), d.items(): the iteration order of a dict is fixed by the build
\* (the hash of the keys), not by the order of insertion.
Keys(d) ==
    IF hashOrder = "asc" THEN SortedKeys(DOMAIN d) ELSE Reverse(SortedKeys(DOMAIN d))

\* A pop that leaves the key in place.
KeepKey(d, k) == d

\* d.pop(k)
Without(d, k) == [x \in DOMAIN d \ {k} |-> d[x]]

\* d.update(e)
Update(d, e) ==
    [x \in DOMAIN d \cup DOMAIN e |-> IF x \in DOMAIN e THEN e[x] ELSE d[x]]

\* d[k] = v
Put(d, k, v) == [x \in DOMAIN d \cup {k} |-> IF x = k THEN v ELSE d[x]]

RECURSIVE JoinWith(_, _)
JoinWith(pieces, sep) ==
    IF pieces = <<>> THEN <<>>
    ELSE IF Len(pieces) = 1 THEN pieces[1]
    ELSE pieces[1] \o <<sep>> \o JoinWith(Tail(pieces), sep)

\* urllib.urlencode(d) of a dict: quote_plus(str(k)) = quote_plus(str(v)),
\* joined with '&', in the dict's iteration order.
urlencode(d) ==
    LET ks == Keys(d)
    IN  JoinWith([i \in 1..Len(ks) |->
                     QuotePlus(PyStr(ks[i])) \o <<"=">> \o QuotePlus(PyStr(d[ks[i]]))],
                 "&")

-----------------------------------------------------------------------------
(* Request options: req_kwargs['params'] and req_kwargs['data'] are absent,  *)
(* a dict, or a pre-encoded string; req_kwargs['headers'] is absent or a     *)
(* dict; req_kwargs['timeout'] is absent or a number.                        *)

Absent == [kind |-> "absent", d |-> EmptyDict, s |-> <<>>]

DictArg(d) == [kind |-> "dict", d |-> d, s |-> <<>>]

StrArg(s) == [kind |-> "str", d |-> EmptyDict, s |-> s]

oauth_callback == <<"oauth_callback">>

oauth_verifier == <<"oauth_verifier">>

oauth_version == <<"oauth_version">>

\* The tuple of line 118.
OptionalParams == <<oauth_callback, oauth_verifier, oauth_version>>

Range(f) == {f[i] : i \in DOMAIN f}

\* A write self.oauth_params[k] = v: AttributeError when the session has no
\* such attribute.
SetItem(op, k, v) ==
    IF op.has THEN [op |-> [op EXCEPT !.d = Put(op.d, k, v)], err |-> "none"]
    ELSE [op |-> op, err |-> "AttributeError"]

\* _parse_optional_params(oauth_param, req_kwargs), on the session's
\* oauth_params op: the new req_kwargs and oauth_params, and the exception
\* raised, if any.
ParseOptional(oauth_param, kw, op) ==
    LET params_is_string == kw.params.kind = "str"
        data_is_string == kw.data.kind = "str"
        \* lines 153-158: the mapping that is searched
        params == IF params_is_string /\ kw.params.s # <<>>
                  THEN DictOfPairs(parse_qsl(kw.params.s))
                  ELSE kw.params.d
        data == kw.data.d
        \* lines 161-162
        inParams == oauth_param \in DOMAIN params
        params1 == IF inParams THEN Without(params, oauth_param) ELSE params
        kw1 == IF inParams /\ kw.params.kind = "dict"
               THEN [kw EXCEPT !.params = DictArg(params1)] ELSE kw
        w1 == IF inParams THEN SetItem(op, oauth_param, params[oauth_param])
              ELSE [op |-> op, err |-> "none"]
        \* lines 163-164
        inData == ~data_is_string /\ oauth_param \in DOMAIN data
        kw2 == IF inData THEN [kw1 EXCEPT !.data = DictArg(Without(data, oauth_param))]
               ELSE kw1
        w2 == IF inData THEN SetItem(w1.op, oauth_param, data[oauth_param])
              ELSE w1
        \* lines 167-168
        kw3 == IF params_is_string
               THEN [kw2 EXCEPT !.params = StrArg(urlencode(params1))] ELSE kw2
    IN  IF w1.err # "none"
        THEN [kw |-> kw1, op |-> op, err |-> w1.err, wrote |-> FALSE]
        ELSE IF w2.err # "none"
        THEN [kw |-> kw2, op |-> w1.op, err |-> w2.err, wrote |-> inParams]
        ELSE [kw |-> kw3, op |-> w2.op, err |-> "none", wrote |-> inParams \/ inData]

-----------------------------------------------------------------------------
(* OAuth1Session *)

Threads == {1, 2}

OAUTH1_DEFAULT_TIMEOUT == 300

\* rauth.utils.FORM_URLENCODED
FORM_URLENCODED == <<"application", "/", "x-www-form-urlencoded">>

\* OAuth1Session.VERSION
VERSION == <<"1.0">>

oauth_consumer_key == <<"oauth_consumer_key">>

oauth_nonce == <<"oauth_nonce">>

oauth_signature_method == <<"oauth_signature_method">>

oauth_timestamp == <<"oauth_timestamp">>

oauth_token == <<"oauth_token">>

oauth_signature == <<"oauth_signature">>

Authorization == <<"Authorization">>

ContentType == <<"Content-Type">>

NoTimeout == [has |-> FALSE, v |-> 0]

NoParams == [has |-> FALSE, d |-> EmptyDict]

NoWire == [sent |-> FALSE, method |-> <<>>,
           kw |-> [params |-> Absent, data |-> Absent, headers |-> Absent,
                   timeout |-> NoTimeout]]

\* OAuth1Session.__init__(..., signature=arg): the attribute self.signature
\* after construction.
InitSignature(arg) ==
    IF arg = NoneV
    THEN [arg |-> arg, has |-> TRUE, NAME |-> <<"HMAC-SHA1">>]
    ELSE [arg |-> arg, has |-> FALSE, NAME |-> <<>>]

\* A request that starts from the mapping the last one left.
StaleParams(old) == [has |-> TRUE, d |-> old.d]

\* Line 112: self.oauth_params = {}, whatever old was there.
FreshParams(old) == [has |-> TRUE, d |-> EmptyDict]

\* method.upper()
Upper(m) ==
    CASE m = <<"put">> -> <<"PUT">>
      [] m = <<"post">> -> <<"POST">>
      [] m = <<"get">> -> <<"GET">>
      [] OTHER -> m

\* A request that replaces whatever timeout the caller passed.
OverwriteTimeout(kw, v) == [kw EXCEPT !.timeout = [has |-> TRUE, v |-> v]]

\* req_kwargs.setdefault('timeout', v)
SetDefaultTimeout(kw, v) ==
    IF kw.timeout.has THEN kw ELSE [kw EXCEPT !.timeout = [has |-> TRUE, v |-> v]]

\* req_kwargs.setdefault(name, {}) for 'headers', 'params', 'data'
SetDefaultDict(arg) == IF arg.kind = "absent" THEN DictArg(EmptyDict) ELSE arg

\* The parameters as a mapping, for the signer.
AsDict(arg) ==
    IF arg.kind = "str" THEN DictOfPairs(parse_qsl(arg.s)) ELSE arg.d

\* key=value pairs of d joined with '&', keys ascending.
Normalized(d) ==
    LET ks == SortedKeys(DOMAIN d)
    IN  JoinWith([i \in 1..Len(ks) |->
                     Quote(PyStr(ks[i])) \o <<"=">> \o Quote(PyStr(d[ks[i]]))],
                 "&")

\* self.signature.sign(self, method, url, req_kwargs): a digest of the method
\* and of the normalized union of the query, body and protocol parameters.
\* The digest is kept as the text it is taken over.
Sign(name, m, op, kw) ==
    name \o <<"(">> \o Upper(m) \o <<"&">>
         \o Normalized(Update(Update(AsDict(kw.params), AsDict(kw.data)), op))
         \o <<")">>

\* The token written whether or not the session has one.
SetOAuthParamsAnyToken(op, nonce, ts) ==
    IF ~op.has \/ ~signature.has THEN [op |-> op, err |-> "AttributeError"]
    ELSE [op |-> [op EXCEPT !.d =
                     Put(Put(Put(Put(Put(Put(op.d, oauth_consumer_key, consumer_key),
                                         oauth_nonce, nonce),
                                     oauth_signature_method, signature.NAME),
                                 oauth_timestamp, IntV(ts)),
                             oauth_token, access_token),
                         oauth_version, VERSION)],
          err |-> "none"]

\* _set_oauth_params(): the writes it makes in order, stopping at the first
\* that raises.  nonce and ts are the values drawn from random() and time().
SetOAuthParamsOf(op, nonce, ts) ==
    LET d1 == Put(Put(op.d, oauth_consumer_key, consumer_key), oauth_nonce, nonce)
        d2 == Put(Put(d1, oauth_signature_method, signature.NAME),
                  oauth_timestamp, IntV(ts))
        d3 == IF access_token # NoneV THEN Put(d2, oauth_token, access_token) ELSE d2
        d4 == Put(d3, oauth_version, VERSION)
    IN  IF ~op.has THEN [op |-> op, err |-> "AttributeError"]
        ELSE IF ~signature.has
        THEN [op |-> [op EXCEPT !.d = d1], err |-> "AttributeError"]
        ELSE [op |-> [op EXCEPT !.d = d4], err |-> "none"]

\* _get_auth_header(realm) on the popped oauth_params.
AuthHeader(r, d) ==
    LET ks == Keys(d)
        seg(k) == <<",">> \o k \o <<"=", "\"">> \o Quote(PyStr(d[k])) \o <<"\"">>
        RECURSIVE cat(_)
        cat(i) == IF i > Len(ks) THEN <<>> ELSE seg(ks[i]) \o cat(i + 1)
    IN  <<"OAuth", " ", "realm", "=", "\"">> \o PyStr(r) \o <<"\"">> \o cat(1)

\* The realm that request hands to _get_auth_header (line 130).
HeaderRealm(r) == NoneV

\* Lines 128-130: the Authorization header.  The pop of oauth_params raises
\* KeyError when the attribute is gone.
InjectHeader(r, kw, op) ==
    LET h == SetDefaultDict(kw.headers)
    IN  IF ~op.has
        THEN [kw |-> [kw EXCEPT !.headers = h], op |-> op, err |-> "KeyError"]
        ELSE [kw |-> [kw EXCEPT !.headers =
                         DictArg(Put(h.d, Authorization,
                                     AuthHeader(HeaderRealm(r), op.d)))],
              op |-> NoParams, err |-> "none"]

\* A content type that replaces the caller's.
ForceContentType(h) == DictArg(Put(h.d, ContentType, FORM_URLENCODED))

\* Line 133: req_kwargs['headers'].setdefault('Content-Type', FORM_URLENCODED)
SetDefaultContentType(h) ==
    IF ContentType \in DOMAIN h.d THEN h
    ELSE DictArg(Put(h.d, ContentType, FORM_URLENCODED))

\* Lines 132-135: the form body.  A body that is a string has no update.
InjectBody(kw, op) ==
    LET h == SetDefaultDict(kw.headers)
        h2 == SetDefaultContentType(h)
        b == SetDefaultDict(kw.data)
        kw1 == [kw EXCEPT !.headers = h2, !.data = b]
    IN  IF b.kind = "str" THEN [kw |-> kw1, op |-> op, err |-> "AttributeError"]
        ELSE IF ~op.has THEN [kw |-> kw1, op |-> op, err |-> "KeyError"]
        ELSE [kw |-> [kw1 EXCEPT !.data = DictArg(Update(b.d, op.d))],
              op |-> NoParams, err |-> "none"]

\* Lines 137-138: the query parameters.
InjectQuery(kw, op) ==
    LET q == SetDefaultDict(kw.params)
        kw1 == [kw EXCEPT !.params = q]
    IN  IF q.kind = "str" THEN [kw |-> kw1, op |-> op, err |-> "AttributeError"]
        ELSE IF ~op.has THEN [kw |-> kw1, op |-> op, err |-> "KeyError"]
        ELSE [kw |-> [kw1 EXCEPT !.params = DictArg(Update(q.d, op.d))],
              op |-> NoParams, err |-> "none"]

\* The method compared as it was passed, in whatever case.
InjectCaseSensitive(m, ha, r, kw, op) ==
    IF ha THEN InjectHeader(r, kw, op)
    ELSE IF m \in {<<"POST">>, <<"PUT">>} THEN InjectBody(kw, op)
    ELSE InjectQuery(kw, op)

\* The header, and the body or the query besides.
InjectTwice(m, ha, r, kw, op) ==
    LET first == InjectHeader(r, kw, op)
    IN  IF ~ha \/ first.err # "none"
        THEN InjectCaseSensitive(Upper(m), ha, r, kw, op)
        ELSE [InjectCaseSensitive(Upper(m), FALSE, r, first.kw, op) EXCEPT !.op = NoParams]

\* Lines 127-138 on req_kwargs kw with the session's oauth_params op: the new
\* req_kwargs and oauth_params, and the exception raised, if any.
InjectOf(m, ha, r, kw, op) ==
    IF ha THEN InjectHeader(r, kw, op)
    ELSE IF Upper(m) \in {<<"POST">>, <<"PUT">>} THEN InjectBody(kw, op)
    ELSE InjectQuery(kw, op)

-----------------------------------------------------------------------------
(* The inputs of request *)

D1(k, v) == [x \in {k} |-> v]

Methods == {<<"GET">>, <<"POST">>, <<"put">>}

Realms == {NoneV, <<"my", " ", "realm">>}

ParamsArgs ==
    {Absent,
     DictArg(D1(<<"a">>, <<"1">>)),
     DictArg(Update(D1(<<"a">>, <<"1">>), D1(oauth_callback, <<"cb", "/", "x", " ", "y">>))),
     StrArg(<<"a", "=", "1", "&", "oauth_callback", "=", "cb">>)}

DataArgs ==
    {Absent,
     DictArg(Update(D1(<<"b">>, <<"2">>),
                    Update(D1(oauth_verifier, <<"v", "=", "1">>),
                           D1(oauth_version, <<"2.0">>)))),
     StrArg(<<"b", "=", "2", "&", "oauth_verifier", "=", "v">>)}

HeadersArgs == {Absent, DictArg(D1(ContentType, <<"text", "/", "plain">>))}

TimeoutArgs == {NoTimeout, [has |-> TRUE, v |-> 5]}

\* The calls a caller makes: every method, target and form of the query and
\* body parameters, and every realm, header set and timeout.
Inputs ==
    [method : Methods, header_auth : BOOLEAN, realm : {NoneV},
     kw : [params : ParamsArgs, data : DataArgs, headers : {Absent},
           timeout : {NoTimeout}]]
    \cup
    [method : Methods, header_auth : BOOLEAN, realm : Realms \ {NoneV},
     kw : [params : {Absent, DictArg(D1(<<"a">>, <<"1">>))}, data : {Absent},
           headers : HeadersArgs, timeout : TimeoutArgs]]

\* The calls two threads make at once.
ConcInputs ==
    [method : {<<"GET">>}, header_auth : BOOLEAN, realm : {NoneV},
     kw : [params : {Absent, DictArg(D1(oauth_callback, <<"cb">>))},
           data : {Absent}, headers : {Absent}, timeout : {NoTimeout}]]

-----------------------------------------------------------------------------
(* OAuth1Session.request, one step per statement *)

\* The call ends: with a response, or with the exception err.
Raise(t, err) ==
    /\ pc' = [pc EXCEPT ![t] = "done"]
    /\ outcome' = [outcome EXCEPT ![t] = err]

\* Lines 110-112: the timeout default, and self.oauth_params = {}.
Begin(t, in) ==
    /\ pc[t] = "idle"
    /\ calls < MaxCalls
    /\ calls' = calls + 1
    /\ method' = [method EXCEPT ![t] = in.method]
    /\ header_auth' = [header_auth EXCEPT ![t] = in.header_auth]
    /\ realm' = [realm EXCEPT ![t] = in.realm]
    /\ given' = [given EXCEPT ![t] = in.kw]
    /\ req_kwargs' = [req_kwargs EXCEPT
                         ![t] = SetDefaultTimeout(in.kw, OAUTH1_DEFAULT_TIMEOUT)]
    /\ oauth_params' = FreshParams(oauth_params)
    /\ param_i' = [param_i EXCEPT ![t] = 1]
    /\ sig' = [sig EXCEPT ![t] = <<>>]
    /\ signed' = [signed EXCEPT ![t] = <<>>]
    /\ own' = [own EXCEPT ![t] = EmptyDict]
    /\ outcome' = [outcome EXCEPT ![t] = "running"]
    /\ wire' = [wire EXCEPT ![t] = NoWire]
    /\ pc' = [pc EXCEPT ![t] = "set"]
    /\ UNCHANGED <<consumer_key, access_token, signature, hashOrder, now, draws,
                   earlier, qs, qs_kwargs, qs_i, o2, ofly>>

\* Line 115: _set_oauth_params().  The clock may have advanced since it was
\* last read.
SetOAuthParams(t) ==
    /\ pc[t] = "set"
    /\ \E ts \in {now, now + 1} :
          /\ ts <= MaxTime
          /\ now' = ts
          /\ draws' = draws + 1
          /\ LET r == SetOAuthParamsOf(oauth_params, <<"nonce", ToString(draws + 1)>>, ts)
             IN  /\ oauth_params' = r.op
                 /\ IF r.err = "none"
                    THEN /\ pc' = [pc EXCEPT ![t] = "parse"]
                         /\ own' = [own EXCEPT ![t] =
                                       SetOAuthParamsOf([has |-> TRUE, d |-> EmptyDict],
                                                        <<"nonce", ToString(draws + 1)>>,
                                                        ts).op.d]
                         /\ UNCHANGED outcome
                    ELSE /\ Raise(t, r.err)
                         /\ UNCHANGED own
    /\ UNCHANGED <<consumer_key, access_token, signature, hashOrder, calls, method,
                   header_auth, realm, req_kwargs, param_i, sig, given, signed,
                   wire, earlier, qs, qs_kwargs, qs_i, o2, ofly>>

\* Lines 118-119: one turn of the loop over the optional parameters.
ParseOptionalParams(t) ==
    /\ pc[t] = "parse"
    /\ LET p == OptionalParams[param_i[t]]
           r == ParseOptional(p, req_kwargs[t], oauth_params)
       IN  /\ oauth_params' = r.op
           /\ req_kwargs' = [req_kwargs EXCEPT ![t] = r.kw]
           /\ IF r.err = "none"
              THEN /\ own' = [own EXCEPT ![t] =
                                 IF r.wrote THEN Put(@, p, r.op.d[p]) ELSE @]
                   /\ param_i' = [param_i EXCEPT ![t] = @ + 1]
                   /\ pc' = [pc EXCEPT ![t] =
                                IF param_i[t] = Len(OptionalParams) THEN "sign" ELSE "parse"]
                   /\ UNCHANGED outcome
              ELSE /\ Raise(t, r.err)
                   /\ UNCHANGED <<own, param_i>>
    /\ UNCHANGED <<consumer_key, access_token, signature, hashOrder, now, calls,
                   draws, method, header_auth, realm, sig, given, signed, wire,
                   earlier, qs, qs_kwargs, qs_i, o2, ofly>>

\* Lines 122-125, the right-hand side: the signer reads the session's
\* oauth_params and returns the signature, or raises.
SignCall(t) ==
    /\ pc[t] = "sign"
    /\ \/ /\ oauth_params.has
          /\ sig' = [sig EXCEPT ![t] =
                        Sign(signature.NAME, method[t], oauth_params.d, req_kwargs[t])]
          /\ signed' = [signed EXCEPT ![t] = Append(@, oauth_params.d)]
          /\ pc' = [pc EXCEPT ![t] = "store"]
          /\ UNCHANGED outcome
       \/ /\ ~oauth_params.has
          /\ Raise(t, "AttributeError")
          /\ UNCHANGED <<sig, signed>>
       \/ /\ oauth_params.has
          /\ Raise(t, "SignerError")
          /\ signed' = [signed EXCEPT ![t] = Append(@, oauth_params.d)]
          /\ UNCHANGED sig
    /\ UNCHANGED <<consumer_key, access_token, signature, oauth_params, hashOrder,
                   now, calls, draws, method, header_auth, realm, req_kwargs,
                   param_i, given, own, wire, earlier, qs, qs_kwargs, qs_i, o2, ofly>>

\* Line 122, the assignment: self.oauth_params['oauth_signature'] = ...
SignStore(t) ==
    /\ pc[t] = "store"
    /\ LET r == SetItem(oauth_params, oauth_signature, sig[t])
       IN  /\ oauth_params' = r.op
           /\ IF r.err = "none"
              THEN /\ pc' = [pc EXCEPT ![t] = "inject"]
                   /\ own' = [own EXCEPT ![t] = Put(@, oauth_signature, sig[t])]
                   /\ UNCHANGED outcome
              ELSE /\ Raise(t, r.err)
                   /\ UNCHANGED own
    /\ UNCHANGED <<consumer_key, access_token, signature, hashOrder, now, calls,
                   draws, method, header_auth, realm, req_kwargs, param_i, sig,
                   given, signed, wire, earlier, qs, qs_kwargs, qs_i, o2, ofly>>

\* Lines 127-138: the protocol parameters go to the header, the body or the
\* query.
Inject(t) ==
    /\ pc[t] = "inject"
    /\ LET r == InjectOf(method[t], header_auth[t], realm[t], req_kwargs[t],
                         oauth_params)
       IN  /\ oauth_params' = r.op
           /\ req_kwargs' = [req_kwargs EXCEPT ![t] = r.kw]
           /\ IF r.err = "none"
              THEN /\ pc' = [pc EXCEPT ![t] = "send"]
                   /\ UNCHANGED outcome
              ELSE Raise(t, r.err)
    /\ UNCHANGED <<consumer_key, access_token, signature, hashOrder, now, calls,
                   draws, method, header_auth, realm, param_i, sig, given, signed,
                   own, wire, earlier, qs, qs_kwargs, qs_i, o2, ofly>>

\* Line 140: the request is handed to the transport, which answers or raises.
Transport(t) ==
    /\ pc[t] = "send"
    /\ wire' = [wire EXCEPT ![t] =
                   [sent |-> TRUE, method |-> method[t], kw |-> req_kwargs[t]]]
    /\ \E result \in {"response", "TransportError"} : Raise(t, result)
    /\ UNCHANGED <<consumer_key, access_token, signature, oauth_params, hashOrder,
                   now, calls, draws, method, header_auth, realm, req_kwargs,
                   param_i, sig, given, signed, own, earlier, qs, qs_kwargs,
                   qs_i, o2, ofly>>

\* The caller has the result; the frame of the call is gone.
Return(t) ==
    /\ pc[t] = "done"
    /\ pc' = [pc EXCEPT ![t] = "idle"]
    /\ earlier' = earlier \cup {p \in DOMAIN own[t] \cap Range(OptionalParams) :
                                  own[t][p] # VERSION}
    /\ method' = [method EXCEPT ![t] = <<>>]
    /\ header_auth' = [header_auth EXCEPT ![t] = FALSE]
    /\ realm' = [realm EXCEPT ![t] = NoneV]
    /\ req_kwargs' = [req_kwargs EXCEPT ![t] = NoWire.kw]
    /\ given' = [given EXCEPT ![t] = NoWire.kw]
    /\ param_i' = [param_i EXCEPT ![t] = 1]
    /\ sig' = [sig EXCEPT ![t] = <<>>]
    /\ signed' = [signed EXCEPT ![t] = <<>>]
    /\ own' = [own EXCEPT ![t] = EmptyDict]
    /\ outcome' = [outcome EXCEPT ![t] = "returned"]
    /\ wire' = [wire EXCEPT ![t] = NoWire]
    /\ UNCHANGED <<consumer_key, access_token, signature, oauth_params, hashOrder,
                   now, calls, draws, qs, qs_kwargs, qs_i, o2, ofly>>

Request(t) ==
    \/ SetOAuthParams(t)
    \/ ParseOptionalParams(t)
    \/ SignCall(t)
    \/ SignStore(t)
    \/ Inject(t)
    \/ Transport(t)
    \/ Return(t)

-----------------------------------------------------------------------------
(* OAuth2Session *)

OAUTH2_DEFAULT_TIMEOUT == 300

AccessTokenKey == <<"access_token">>

\* OAuth2Session(client_id, client_secret, access_token=tok), no call begun.
\* made is the credentials as the constructor stored them.
OAuth2Construct(tok) ==
    [client_id |-> <<"cid">>, client_secret |-> <<"cs">>, access_token |-> tok,
     made |-> <<<<"cid">>, <<"cs">>, tok>>,
     pc |-> "idle", method |-> <<>>, given |-> NoWire.kw,
     req_kwargs |-> NoWire.kw, outcome |-> "none", wire |-> NoWire, calls |-> 0]

\* A call that drops the caller's query parameters.
AddAccessTokenAlone(kw, tok) ==
    [kw |-> [kw EXCEPT !.params = DictArg(D1(AccessTokenKey, tok))],
     err |-> "none"]

\* Lines 254-255: req_kwargs.setdefault('params', {}).update({'access_token':
\* self.access_token}); a string has no update.
AddAccessToken(kw, tok) ==
    LET q == SetDefaultDict(kw.params)
    IN  IF q.kind = "str"
        THEN [kw |-> [kw EXCEPT !.params = q], err |-> "AttributeError"]
        ELSE [kw |-> [kw EXCEPT !.params = DictArg(Put(q.d, AccessTokenKey, tok))],
              err |-> "none"]

OAuth2ParamsArgs ==
    {Absent,
     DictArg(D1(<<"a">>, <<"1">>)),
     DictArg(Update(D1(<<"a">>, <<"1">>), D1(AccessTokenKey, <<"old">>))),
     StrArg(<<"a", "=", "1">>)}

OAuth2Inputs ==
    [method : {<<"GET">>, <<"POST">>},
     kw : [params : OAuth2ParamsArgs,
           data : {Absent, DictArg(D1(<<"b">>, <<"2">>))},
           headers : HeadersArgs, timeout : TimeoutArgs]]

OAuth1Vars ==
    <<consumer_key, access_token, signature, oauth_params, hashOrder, now, calls,
      draws, pc, method, header_auth, realm, req_kwargs, param_i, sig, given,
      signed, own, earlier, outcome, wire, qs, qs_kwargs, qs_i>>

\* request(method, url, **req_kwargs) is entered.
OAuth2Begin(in) ==
    /\ o2.pc = "idle"
    /\ o2.calls < MaxCalls
    /\ o2' = [o2 EXCEPT !.pc = "token", !.method = in.method, !.given = in.kw,
                        !.req_kwargs = in.kw, !.outcome = "none",
                        !.wire = NoWire, !.calls = @ + 1]
    /\ UNCHANGED <<OAuth1Vars, ofly>>

\* Lines 254-255.
OAuth2AccessToken ==
    /\ o2.pc = "token"
    /\ LET r == AddAccessToken(o2.req_kwargs, o2.access_token)
       IN  o2' = [o2 EXCEPT !.req_kwargs = r.kw,
                            !.pc = IF r.err = "none" THEN "timeout" ELSE "done",
                            !.outcome = r.err]
    /\ UNCHANGED <<OAuth1Vars, ofly>>

\* Line 256.
OAuth2Timeout ==
    /\ o2.pc = "timeout"
    /\ o2' = [o2 EXCEPT !.req_kwargs = SetDefaultTimeout(@, OAUTH2_DEFAULT_TIMEOUT),
                        !.pc = "send"]
    /\ UNCHANGED <<OAuth1Vars, ofly>>

\* Line 258: Session.request(method, url, **req_kwargs).
OAuth2Transport ==
    /\ o2.pc = "send"
    /\ \E result \in {"response", "TransportError"} :
          o2' = [o2 EXCEPT !.wire = [sent |-> TRUE, method |-> o2.method,
                                     kw |-> o2.req_kwargs],
                           !.pc = "done", !.outcome = result]
    /\ UNCHANGED <<OAuth1Vars, ofly>>

\* The caller has the result; the frame of the call is gone.
OAuth2Return ==
    /\ o2.pc = "done"
    /\ o2' = [o2 EXCEPT !.pc = "idle", !.method = <<>>, !.given = NoWire.kw,
                        !.req_kwargs = NoWire.kw, !.outcome = "returned",
                        !.wire = NoWire]
    /\ UNCHANGED <<OAuth1Vars, ofly>>

OAuth2Request ==
    \/ \E in \in OAuth2Inputs : OAuth2Begin(in)
    \/ OAuth2AccessToken
    \/ OAuth2Timeout
    \/ OAuth2Transport
    \/ OAuth2Return

-----------------------------------------------------------------------------
(* OflySession.  The millisecond field of the timestamp is kept digit by     *)
(* digit; a hash_meth is a string, the hashlib function the string selects,  *)
(* or whatever other object the caller put in its place.                     *)

OFLY_DEFAULT_TIMEOUT == 300

oflyAppId == <<"oflyAppId">>

oflyHashMeth == <<"oflyHashMeth">>

oflyTimestamp == <<"oflyTimestamp">>

oflyApiSig == <<"oflyApiSig">>

HashStr(s) == [kind |-> "str", v |-> s]

HashFunc(n) == [kind |-> "func", v |-> n]

HashObject == [kind |-> "object", v |-> <<>>]

NoResult == [has |-> FALSE, first |-> <<>>, second |-> EmptyDict]

\* OflySession(app_id, app_secret), no call begun.
OflyConstruct ==
    [app_id |-> <<"app">>, app_secret |-> <<"secret">>,
     pc |-> "idle", entry |-> "none", header_auth |-> FALSE, method |-> <<>>,
     url |-> <<>>, given |-> NoWire.kw, req_kwargs |-> NoWire.kw,
     hash0 |-> HashObject, hash_meth |-> HashObject, params |-> EmptyDict,
     usec |-> 0, time_format |-> <<>>, base |-> <<>>, result |-> NoResult,
     outcome |-> "none", wire |-> NoWire, calls |-> 0]

\* Any name is taken for a hash method.
SelectAnyHash(h) == [h |-> HashFunc(<<"sha1">>), err |-> "none"]

\* Lines 344-349: the hashlib function that hash_meth names.
SelectHash(h) ==
    IF h = HashStr(<<"sha1">>) THEN [h |-> HashFunc(<<"sha1">>), err |-> "none"]
    ELSE IF h = HashStr(<<"md5">>) THEN [h |-> HashFunc(<<"md5">>), err |-> "none"]
    ELSE [h |-> h, err |-> "TypeError"]

\* Lines 351-355: param_sorting(params).
param_sorting(d) ==
    LET ks == SortedKeys(DOMAIN d)
    IN  JoinWith([i \in 1..Len(ks) |-> ks[i] \o <<"=">> \o d[ks[i]]], "&")

\* '{0}'.format(n) of a non-negative int: its decimal digits, no padding.
RECURSIVE Decimal(_)
Decimal(n) ==
    IF n < 10 THEN <<ToString(n)>>
    ELSE Decimal(n \div 10) \o <<ToString(n % 10)>>

\* Lines 358-360: the format string for the microsecond the clock reads.
TimeFormat(microsecond) ==
    LET milliseconds == microsecond \div 1000
    IN  <<"%Y-%m-%dT%H:%M:%S", ".">> \o Decimal(milliseconds) \o <<"Z">>

\* The digits between the '.' and the 'Z' of a format string or a timestamp.
Fraction(t) == SubSeq(t, 3, Len(t) - 1)

\* now.strftime(time_format): the date and time take the place of the
\* directives, the rest is copied.
Strftime(time_format) == <<"2012-01-01T00:00:00">> \o Tail(time_format)

\* hash_meth.upper(): only a string has the method.
HashMethUpper(h) ==
    IF h.kind # "str" THEN [v |-> <<>>, err |-> "AttributeError"]
    ELSE [v |-> CASE h.v = <<"sha1">> -> <<"SHA1">>
                  [] h.v = <<"md5">> -> <<"MD5">>
                  [] OTHER -> h.v,
          err |-> "none"]

\* urlsplit(url).path of scheme://host/path
UrlPath(url) == SubSeq(url, 6, Len(url))

\* hash_meth(s).hexdigest(): one text for each function and each input.
HexDigest(h, s) == <<"#digest", h.v[1]>> \o s

\* Lines 361-379, for hash_meth h as lines 344-349 left it.
SignTail(url, app_id, app_secret, h, params, time_format) ==
    LET up == HashMethUpper(h)
        ofly_params ==
            [k \in {oflyAppId, oflyHashMeth, oflyTimestamp} |->
                CASE k = oflyAppId -> app_id
                  [] k = oflyHashMeth -> up.v
                  [] k = oflyTimestamp -> Strftime(time_format)]
        sorted_params == param_sorting(params)
        base == app_secret \o UrlPath(url) \o <<"?">>
                \o (IF Len(sorted_params) > 0 THEN sorted_params \o <<"&">>
                    ELSE <<>>)
                \o param_sorting(ofly_params)
        signedParams == Put(params, oflyApiSig, HexDigest(h, base))
    IN  IF up.err # "none"
        THEN [err |-> up.err, base |-> <<>>, result |-> NoResult]
        ELSE [err |-> "none", base |-> base,
              result |-> [has |-> TRUE, first |-> param_sorting(signedParams),
                          second |-> ofly_params]]

\* Lines 326-329 with what sign returned: a dict cannot be updated from a
\* non-empty string, and a string has no update.
MergeSigned(kw, ha, result) ==
    IF kw.params.kind = "str" THEN [kw |-> kw, err |-> "AttributeError"]
    ELSE IF result.first # <<>> THEN [kw |-> kw, err |-> "ValueError"]
    ELSE IF ha
    THEN [kw |-> [kw EXCEPT !.headers = DictArg(Update(@.d, result.second))],
          err |-> "none"]
    ELSE [kw |-> kw, err |-> "none"]

OflyUrl == <<"http", ":", "/", "/", "example.com", "/", "x">>

Microseconds == {0, 999, 5000, 99999, 100000, 999999}

\* The calls of request.
OflyInputs ==
    [method : {<<"GET">>}, url : {OflyUrl}, header_auth : BOOLEAN,
     kw : [params : {Absent, DictArg(D1(<<"a">>, <<"1">>)), StrArg(<<"sha1">>)},
           data : {Absent}, headers : HeadersArgs, timeout : TimeoutArgs]]

\* The calls of the static sign: hash_meth and **params.
SignInputs ==
    [url : {OflyUrl},
     hash_meth : {HashStr(<<"sha1">>), HashStr(<<"md5">>), HashStr(<<"sha256">>)},
     params : {EmptyDict, D1(<<"a">>, <<"1">>),
               Update(D1(<<"b">>, <<"2">>), D1(<<"a">>, <<"1">>))}]

\* The fourth positional argument of sign is hash_meth.
AsHashMeth(arg) == IF arg.kind = "str" THEN HashStr(arg.s) ELSE HashObject

\* request(method, url, header_auth, **req_kwargs): lines 317-319, and the
\* call of lines 321-324, which binds req_kwargs['params'] to hash_meth and
\* leaves **params empty.
OflyRequestBegin(in) ==
    /\ ofly.pc = "idle"
    /\ ofly.calls < MaxCalls
    /\ LET kw == SetDefaultTimeout(
                     [in.kw EXCEPT !.params = SetDefaultDict(@),
                                   !.headers = SetDefaultDict(@)],
                     OFLY_DEFAULT_TIMEOUT)
       IN  ofly' = [OflyConstruct EXCEPT
                       !.pc = "select", !.entry = "request",
                       !.header_auth = in.header_auth, !.method = in.method,
                       !.url = in.url, !.given = in.kw, !.req_kwargs = kw,
                       !.hash0 = AsHashMeth(kw.params),
                       !.hash_meth = AsHashMeth(kw.params),
                       !.calls = ofly.calls + 1]
    /\ UNCHANGED <<OAuth1Vars, o2>>

\* OflySession.sign(url, app_id, app_secret, hash_meth, **params), called by
\* the program itself.
OflySignBegin(in) ==
    /\ ofly.pc = "idle"
    /\ ofly.calls < MaxCalls
    /\ ofly' = [OflyConstruct EXCEPT
                   !.pc = "select", !.entry = "sign", !.url = in.url,
                   !.hash0 = in.hash_meth, !.hash_meth = in.hash_meth,
                   !.params = in.params, !.calls = ofly.calls + 1]
    /\ UNCHANGED <<OAuth1Vars, o2>>

\* Lines 344-349.
OflySelect ==
    /\ ofly.pc = "select"
    /\ LET r == SelectHash(ofly.hash_meth)
       IN  ofly' = [ofly EXCEPT !.hash_meth = r.h,
                                !.pc = IF r.err = "none" THEN "clock" ELSE "done",
                                !.outcome = r.err]
    /\ UNCHANGED <<OAuth1Vars, o2>>

\* Lines 357-360: the clock is read.
OflyClock ==
    /\ ofly.pc = "clock"
    /\ \E microsecond \in Microseconds :
          ofly' = [ofly EXCEPT !.usec = microsecond,
                               !.time_format = TimeFormat(microsecond),
                               !.pc = "params"]
    /\ UNCHANGED <<OAuth1Vars, o2>>

\* Lines 361-379 and, in request, lines 326-331.
OflyFinish ==
    /\ ofly.pc = "params"
    /\ LET r == SignTail(ofly.url, ofly.app_id, ofly.app_secret, ofly.hash_meth,
                         ofly.params, ofly.time_format)
           m == MergeSigned(ofly.req_kwargs, ofly.header_auth, r.result)
       IN  IF r.err # "none"
           THEN ofly' = [ofly EXCEPT !.pc = "done", !.outcome = r.err]
           ELSE IF ofly.entry = "sign"
           THEN ofly' = [ofly EXCEPT !.pc = "done", !.outcome = "result",
                                     !.base = r.base, !.result = r.result]
           ELSE IF m.err # "none"
           THEN ofly' = [ofly EXCEPT !.pc = "done", !.outcome = m.err,
                                     !.base = r.base, !.result = r.result]
           ELSE \E result \in {"response", "TransportError"} :
                   ofly' = [ofly EXCEPT
                               !.pc = "done", !.outcome = result,
                               !.base = r.base, !.result = r.result,
                               !.req_kwargs = m.kw,
                               !.wire = [sent |-> TRUE, method |-> ofly.method,
                                         kw |-> m.kw]]
    /\ UNCHANGED <<OAuth1Vars, o2>>

\* The caller has the result or the exception; the frame of the call is gone.
OflyReturn ==
    /\ ofly.pc = "done"
    /\ ofly' = [OflyConstruct EXCEPT !.calls = ofly.calls]
    /\ UNCHANGED <<OAuth1Vars, o2>>

OflyCall ==
    \/ \E in \in OflyInputs : OflyRequestBegin(in)
    \/ \E in \in SignInputs : OflySignBegin(in)
    \/ OflySelect
    \/ OflyClock
    \/ OflyFinish
    \/ OflyReturn

-----------------------------------------------------------------------------
(* The specifications *)

\* The session attributes after OAuth1Session(consumer_key, consumer_secret,
\* access_token=tok, signature=arg).
Construct(tok, arg) ==
    /\ consumer_key = <<"ck">>
    /\ access_token = tok
    /\ signature = InitSignature(arg)
    /\ oauth_params = NoParams

NoCall ==
    /\ now = 0
    /\ calls = 0
    /\ draws = 0
    /\ pc = [t \in Threads |-> "idle"]
    /\ method = [t \in Threads |-> <<>>]
    /\ header_auth = [t \in Threads |-> FALSE]
    /\ realm = [t \in Threads |-> NoneV]
    /\ req_kwargs = [t \in Threads |-> NoWire.kw]
    /\ param_i = [t \in Threads |-> 1]
    /\ sig = [t \in Threads |-> <<>>]
    /\ given = [t \in Threads |-> NoWire.kw]
    /\ signed = [t \in Threads |-> <<>>]
    /\ own = [t \in Threads |-> EmptyDict]
    /\ earlier = {}
    /\ outcome = [t \in Threads |-> "none"]
    /\ wire = [t \in Threads |-> NoWire]

\* The other two sessions, as constructed.
NoOthers ==
    /\ o2 = OAuth2Construct(<<"tok2">>)
    /\ ofly = OflyConstruct

NoParse ==
    /\ qs = <<>>
    /\ qs_kwargs = NoWire.kw
    /\ qs_i = 0

\* One caller, one request after another.
Init ==
    /\ \E tok \in {NoneV, <<"tok">>}, arg \in {NoneV, <<"PLAINTEXT">>} :
          Construct(tok, arg)
    /\ hashOrder \in {"asc", "desc"}
    /\ NoCall
    /\ NoParse
    /\ NoOthers

Next ==
    \E t \in {1} :
        \/ \E in \in Inputs : Begin(t, in)
        \/ Request(t)

Spec == Init /\ [][Next]_vars

\* Two threads share one session.
InitConc ==
    /\ Construct(<<"tok">>, NoneV)
    /\ hashOrder = "asc"
    /\ NoCall
    /\ NoParse
    /\ NoOthers

NextConc ==
    \E t \in Threads :
        \/ \E in \in ConcInputs : outcome[t] = "none" /\ Begin(t, in)
        \/ Request(t)

SpecConc == InitConc /\ [][NextConc]_vars

-----------------------------------------------------------------------------
(* _parse_optional_params on a pre-encoded query string, on its own *)

QsPairs ==
    {<<"a", "=", "1">>, <<"a", "=", "2">>, <<"b", "=">>,
     <<"oauth_callback", "=", "cb">>}

\* Up to MaxPairs pairs, each key=value, joined with '&'.
QsInputs ==
    {JoinWith(ps, "&") : ps \in UNION {[1..n -> QsPairs] : n \in 0..MaxPairs}}

InitParse ==
    /\ Construct(NoneV, NoneV)
    /\ hashOrder \in {"asc", "desc"}
    /\ NoCall
    /\ qs \in QsInputs
    /\ qs_kwargs = [NoWire.kw EXCEPT !.params = StrArg(qs)]
    /\ qs_i = 0
    /\ NoOthers

\* One turn of the loop of lines 118-119 on req_kwargs = {'params': qs}.
ParseStep ==
    /\ qs_i < Len(OptionalParams)
    /\ LET r == ParseOptional(OptionalParams[qs_i + 1], qs_kwargs,
                              IF qs_i = 0 THEN FreshParams(oauth_params)
                              ELSE oauth_params)
       IN  /\ qs_kwargs' = r.kw
           /\ oauth_params' = r.op
    /\ qs_i' = qs_i + 1
    /\ UNCHANGED <<consumer_key, access_token, signature, hashOrder, now, calls,
                   draws, pc, method, header_auth, realm, req_kwargs, param_i, sig,
                   given, signed, own, earlier, outcome, wire, qs, o2, ofly>>

SpecParse == InitParse /\ [][ParseStep]_vars

-----------------------------------------------------------------------------
(* A program that holds an OAuth2Session; one that holds an OflySession;    *)
(* one that holds one session of each kind and uses one of them.            *)

InitOAuth2 ==
    /\ Construct(NoneV, NoneV)
    /\ hashOrder = "asc"
    /\ NoCall
    /\ NoParse
    /\ \E tok \in {NoneV, <<"tok2">>} : o2 = OAuth2Construct(tok)
    /\ ofly = OflyConstruct

SpecOAuth2 == InitOAuth2 /\ [][OAuth2Request]_vars

InitOfly ==
    /\ Construct(NoneV, NoneV)
    /\ hashOrder = "asc"
    /\ NoCall
    /\ NoParse
    /\ NoOthers

SpecOfly == InitOfly /\ [][OflyCall]_vars

NextAll ==
    \/ o2.calls = 0 /\ ofly.calls = 0 /\ Next
    \/ calls = 0 /\ ofly.calls = 0 /\ OAuth2Request
    \/ calls = 0 /\ o2.calls = 0 /\ OflyCall

SpecAll == Init /\ [][NextAll]_vars

-----------------------------------------------------------------------------
(* What the claims speak of *)

ProtocolKeys ==
    {oauth_consumer_key, oauth_nonce, oauth_signature_method, oauth_timestamp,
     oauth_token, oauth_version, oauth_callback, oauth_verifier, oauth_signature}

Restrict(d, S) == [k \in DOMAIN d \cap S |-> d[k]]

\* The caller passed p among the query parameters (a mapping or a pre-encoded
\* string) or among the body parameters (a mapping).
Supplied(p, kw) ==
    \/ kw.params.kind = "dict" /\ p \in DOMAIN kw.params.d
    \/ kw.params.kind = "str" /\ \E i \in 1..Len(SplitOn(kw.params.s, {"&"})) :
          SplitPair(SplitOn(kw.params.s, {"&"})[i])[1] = p
    \/ kw.data.kind = "dict" /\ p \in DOMAIN kw.data.d

BodyMethods == {<<"POST">>, <<"PUT">>, <<"post">>, <<"put">>}

\* The target that the method and header_auth select.
Target(m, ha) ==
    IF ha THEN "headers" ELSE IF m \in BodyMethods THEN "data" ELSE "params"

\* The forwarded request w carries, in its target, the protocol parameters d
\* and no other protocol parameter.
Carries(w, m, ha, d) ==
    CASE Target(m, ha) = "headers" ->
            /\ w.kw.headers.kind = "dict"
            /\ Authorization \in DOMAIN w.kw.headers.d
            /\ w.kw.headers.d[Authorization] = AuthHeader(NoneV, d)
      [] Target(m, ha) = "data" ->
            /\ w.kw.data.kind = "dict"
            /\ Restrict(w.kw.data.d, ProtocolKeys) = d
      [] Target(m, ha) = "params" ->
            /\ w.kw.params.kind = "dict"
            /\ Restrict(w.kw.params.d, ProtocolKeys) = d

-----------------------------------------------------------------------------
(* C1 *)

\* C1: with two request calls running at once on one session, neither call
\* fails because the other removed self.oauth_params, and a call that reaches
\* the transport forwards exactly the protocol parameters it built itself.
C1_EachCallForwardsItsOwnSet ==
    \A t \in Threads :
        /\ outcome[t] \notin {"AttributeError", "KeyError"}
        /\ wire[t].sent => Carries(wire[t], method[t], header_auth[t], own[t])

-----------------------------------------------------------------------------
(* C2 *)

\* C2: once a request call has ended, with a response or with an exception,
\* the session has no oauth_params attribute.
\* (Stated for a session whose signer attribute is set, so that what refutes
\* it is request itself and not the constructor.)
C2_NoScratchAfterRequest ==
    (signature.has /\ calls > 0 /\ \A t \in Threads : pc[t] \in {"idle", "done"})
        => ~oauth_params.has

-----------------------------------------------------------------------------
(* C3 *)

\* C3: in a sequence of requests each protocol-parameter set is built from an
\* empty mapping: all along the call the session's mapping holds what this
\* call wrote and nothing else, an optional parameter is in it only when this
\* call's caller supplied it, oauth_version differs from '1.0' only when this
\* caller chose it, and the request handed to the transport carries that set
\* with this call's signature.
C3_BuiltFromEmptyEachRequest ==
    /\ pc[1] \in {"parse", "sign", "store", "inject"} => oauth_params.d = own[1]
    /\ \A p \in {oauth_callback, oauth_verifier} :
          p \in DOMAIN own[1] => Supplied(p, given[1])
    /\ (oauth_version \in DOMAIN own[1] /\ own[1][oauth_version] # VERSION)
          => Supplied(oauth_version, given[1])
    /\ wire[1].sent =>
          /\ Carries(wire[1], method[1], header_auth[1], own[1])
          /\ own[1][oauth_signature] = sig[1]

\* A second request, sent without oauth_callback and with the default version
\* after an earlier request moved both.
C3_Witness ==
    /\ calls = 2
    /\ wire[1].sent
    /\ {oauth_callback, oauth_version} \subseteq earlier
    /\ ~Supplied(oauth_callback, given[1])
    /\ ~Supplied(oauth_version, given[1])
    /\ own[1][oauth_version] = VERSION

-----------------------------------------------------------------------------
(* C4 *)

Targets == {"headers", "params", "data"}

OthersAllowed(x, m, ha, g, w) ==
    CASE x = "headers" ->
            IF Target(m, ha) = "data"
            THEN /\ w.kind = "dict"
                 /\ Without(w.d, ContentType) = Without(g.d, ContentType)
                 /\ w.d[ContentType] = IF ContentType \in DOMAIN g.d
                                       THEN g.d[ContentType] ELSE FORM_URLENCODED
            ELSE w = g
      [] x = "params" ->
            /\ w.kind = g.kind
            /\ AsDict(w) = Restrict(AsDict(g), DOMAIN AsDict(g) \ Range(OptionalParams))
      [] x = "data" ->
            IF g.kind = "str" THEN w = g
            ELSE /\ w.kind = g.kind
                 /\ w.d = Restrict(g.d, DOMAIN g.d \ Range(OptionalParams))

-----------------------------------------------------------------------------
(* C5 *)

\* C5: with header_auth false and a method that is POST or PUT in any letter
\* case, the forwarded body holds every protocol parameter, oauth_signature
\* included, and the forwarded query parameters hold none.
C5_BodyNotQuery ==
    (wire[1].sent /\ ~header_auth[1] /\ method[1] \in BodyMethods) =>
        /\ wire[1].kw.data.kind = "dict"
        /\ oauth_signature \in DOMAIN own[1]
        /\ \A k \in DOMAIN own[1] :
              k \in DOMAIN wire[1].kw.data.d /\ wire[1].kw.data.d[k] = own[1][k]
        /\ DOMAIN AsDict(wire[1].kw.params) \cap ProtocolKeys = {}

\* A lower-case put, sent.
C5_Witness ==
    /\ wire[1].sent
    /\ ~header_auth[1]
    /\ method[1] = <<"put">>
    /\ given[1].params.kind = "dict"

-----------------------------------------------------------------------------
(* C6 *)

\* C6: the signer is invoked once per request, not before the defaults are
\* built and the loop over the three optional parameters is over, and before
\* anything is injected; the set it sees holds consumer key, nonce, signature
\* method, timestamp and version, holds oauth_token exactly when the session
\* has an access token, holds the optional parameters moved out of the
\* caller's mappings, and holds no oauth_signature.
C6_SignedOnceOnTheBuiltSet ==
    /\ Len(signed[1]) <= 1
    /\ pc[1] \in {"set", "parse"} => signed[1] = <<>>
    /\ (pc[1] \in {"store", "inject", "send"} \/ wire[1].sent) => Len(signed[1]) = 1
    /\ Len(signed[1]) = 1 =>
          LET d == signed[1][1]
          IN  /\ param_i[1] = Len(OptionalParams) + 1
              /\ {oauth_consumer_key, oauth_nonce, oauth_signature_method,
                  oauth_timestamp, oauth_version} \subseteq DOMAIN d
              /\ d[oauth_consumer_key] = consumer_key
              /\ d[oauth_signature_method] = signature.NAME
              /\ oauth_token \in DOMAIN d <=> access_token # NoneV
              /\ oauth_token \in DOMAIN d => d[oauth_token] = access_token
              /\ oauth_signature \notin DOMAIN d
              /\ \A p \in Range(OptionalParams) :
                    \/ p \in DOMAIN d
                    \/ /\ p \notin DOMAIN given[1].params.d
                       /\ p \notin DOMAIN given[1].data.d
    /\ pc[1] = "store" =>
          /\ req_kwargs[1].headers = given[1].headers
          /\ DOMAIN req_kwargs[1].params.d \cap ProtocolKeys = {}
          /\ DOMAIN req_kwargs[1].data.d \cap ProtocolKeys = {}

\* The signer has returned, on a session without an access token, for a
\* caller that passed oauth_callback.
C6_Witness ==
    /\ pc[1] = "store"
    /\ access_token = NoneV
    /\ oauth_callback \in DOMAIN given[1].params.d

-----------------------------------------------------------------------------
(* C7 *)

\* C7: once the loop over oauth_callback, oauth_verifier and oauth_version is
\* over, a name that was a key of the caller's query or body mapping is no
\* longer a key of it and the protocol-parameter set holds the caller's value
\* for it; every other key of the caller's mappings is in place with its
\* value.
C7_OptionalMovedFromMappings ==
    pc[1] \in {"sign", "store"} =>
        /\ \A x \in {"params", "data"} :
              given[1][x].kind = "dict" =>
                 /\ req_kwargs[1][x].kind = "dict"
                 /\ req_kwargs[1][x].d =
                       Restrict(given[1][x].d,
                                DOMAIN given[1][x].d \ Range(OptionalParams))
        /\ \A p \in Range(OptionalParams) :
              /\ p \in DOMAIN given[1].data.d => oauth_params.d[p] = given[1].data.d[p]
              /\ (p \in DOMAIN given[1].params.d /\ p \notin DOMAIN given[1].data.d)
                    => oauth_params.d[p] = given[1].params.d[p]

\* The loop is over for a caller that passed oauth_callback in the query
\* mapping and oauth_version in the body mapping.
C7_Witness ==
    /\ pc[1] = "sign"
    /\ oauth_callback \in DOMAIN given[1].params.d
    /\ oauth_version \in DOMAIN given[1].data.d
    /\ oauth_params.d[oauth_version] = <<"2.0">>

-----------------------------------------------------------------------------
(* C8 *)

\* The pairs of s whose key is none of the optional parameters, joined as
\* they stood.
MinusOptional(s) ==
    JoinWith(SelectSeq(SplitOn(s, {"&"}),
                       LAMBDA piece : SplitPair(piece)[1] \notin Range(OptionalParams)),
             "&")

\* C8: for a pre-encoded query string, the string that _parse_optional_params
\* leaves in req_kwargs is the original sequence of pairs minus the pairs of
\* the reserved keys: no other pair dropped, the order kept.
C8_ReencodedIsOriginalMinusKey ==
    (/\ qs_i = Len(OptionalParams)
     /\ Supplied(oauth_callback, [qs_kwargs EXCEPT !.params = StrArg(qs)])) =>
        /\ qs_kwargs.params.kind = "str"
        /\ qs_kwargs.params.s = MinusOptional(qs)

-----------------------------------------------------------------------------
(* C9 *)

\* C9: a session constructed with a signature object has it as its signer: no
\* request fails for the missing attribute, and a request that is sent
\* carries that object's NAME as oauth_signature_method.
C9_SuppliedSignerIsUsed ==
    signature.arg # NoneV =>
        /\ outcome[1] # "AttributeError"
        /\ wire[1].sent => own[1][oauth_signature_method] = signature.arg

-----------------------------------------------------------------------------
(* C10 *)

\* C10: with header_auth true the Authorization header sent is
\* 'OAuth realm="<realm>"' with the realm the caller passed, followed by one
\* ',<name>="<percent-encoded value>"' segment per protocol parameter.
C10_HeaderHasCallersRealm ==
    (wire[1].sent /\ header_auth[1]) =>
        wire[1].kw.headers.d[Authorization] = AuthHeader(realm[1], own[1])

-----------------------------------------------------------------------------
(* C11 *)

\* The timeout option of kw is the caller's if the caller passed one, and
\* 300 if not.
TimeoutDefaulted(passed, kw) ==
    kw.timeout = IF passed.timeout.has THEN passed.timeout
                 ELSE [has |-> TRUE, v |-> 300]

\* C11: in each of the three sessions, once request has executed its timeout
\* default, the timeout request option is 300 exactly when the caller passed
\* none and is the caller's own otherwise; a request handed to the transport
\* carries that timeout.
C11_TimeoutDefaultedNeverReplaced ==
    /\ \A t \in Threads :
          /\ pc[t] # "idle" => TimeoutDefaulted(given[t], req_kwargs[t])
          /\ wire[t].sent => TimeoutDefaulted(given[t], wire[t].kw)
    /\ o2.pc = "send" => TimeoutDefaulted(o2.given, o2.req_kwargs)
    /\ o2.wire.sent => TimeoutDefaulted(o2.given, o2.wire.kw)
    /\ ofly.entry = "request" => TimeoutDefaulted(ofly.given, ofly.req_kwargs)
    /\ ofly.wire.sent => TimeoutDefaulted(ofly.given, ofly.wire.kw)

\* An OAuth2Session request reached the transport with the default timeout,
\* the caller having passed none.
C11_Witness ==
    /\ o2.wire.sent
    /\ ~o2.given.timeout.has
    /\ o2.wire.kw.timeout = [has |-> TRUE, v |-> OAUTH2_DEFAULT_TIMEOUT]

-----------------------------------------------------------------------------
(* C12 *)

\* C12: a request that OAuth2Session.request hands to the transport carries
\* the caller's query parameters with access_token set to the token the
\* session was constructed with and nothing else changed, and the caller's
\* headers, body and method as passed; the session's client_id, client_secret
\* and access_token stay as constructed through every sequence of requests.
C12_OnlyAccessTokenAdded ==
    /\ <<o2.client_id, o2.client_secret, o2.access_token>> = o2.made
    /\ o2.wire.sent =>
          /\ o2.given.params.kind # "str"
          /\ o2.wire.kw.params =
                DictArg(Put(o2.given.params.d, AccessTokenKey, o2.made[3]))
          /\ o2.wire.kw.headers = o2.given.headers
          /\ o2.wire.kw.data = o2.given.data
          /\ o2.wire.method = o2.method

\* The second request of a session reached the transport; the caller had
\* passed a query parameter of its own and an access_token, headers and a body.
C12_Witness ==
    /\ o2.wire.sent
    /\ o2.calls = MaxCalls
    /\ DOMAIN o2.given.params.d = {<<"a">>, AccessTokenKey}
    /\ o2.wire.kw.params.d[AccessTokenKey] = <<"tok2">>
    /\ o2.given.headers.kind = "dict"
    /\ o2.given.data.kind = "dict"

-----------------------------------------------------------------------------
(* C13 *)

OflyProtocolKeys == {oflyAppId, oflyHashMeth, oflyTimestamp}

\* C13: OflySession.request called with a query parameter mapping (or none)
\* signs with the default hash method 'sha1' and reaches the transport; the
\* forwarded query parameters are the caller's with the signed parameters
\* merged in, and the forwarded headers hold the protocol parameters
\* (oflyAppId, oflyHashMeth, oflyTimestamp) exactly when header_auth is set.
C13_RequestSignsAndSends ==
    (ofly.pc = "done" /\ ofly.entry = "request" /\ ofly.given.params.kind # "str") =>
        /\ ofly.hash0 = HashStr(<<"sha1">>)
        /\ ofly.outcome \in {"response", "TransportError"}
        /\ ofly.wire.sent
        /\ DOMAIN ofly.wire.kw.params.d = DOMAIN ofly.given.params.d \cup {oflyApiSig}
        /\ Restrict(ofly.wire.kw.params.d, DOMAIN ofly.given.params.d)
              = ofly.given.params.d
        /\ IF ofly.header_auth
           THEN Restrict(ofly.wire.kw.headers.d, OflyProtocolKeys) = ofly.result.second
           ELSE DOMAIN ofly.wire.kw.headers.d \cap OflyProtocolKeys = {}
        /\ DOMAIN ofly.result.second = OflyProtocolKeys

-----------------------------------------------------------------------------
(* C14 *)

\* C14: OflySession.sign called with hash method 'sha1' or 'md5' returns
\* normally a pair.  Its second element holds exactly oflyAppId, oflyHashMeth
\* and oflyTimestamp, oflyHashMeth being 'SHA1' or 'MD5'.  Its first element
\* is the key-sorted 'key=value' string, joined with '&', of the caller's
\* parameters plus oflyApiSig, and names none of the three protocol
\* parameters.
C14_SignReturnsThePair ==
    (/\ ofly.pc = "done"
     /\ ofly.entry = "sign"
     /\ ofly.hash0 \in {HashStr(<<"sha1">>), HashStr(<<"md5">>)}) =>
        /\ ofly.outcome = "result"
        /\ ofly.result.has
        /\ DOMAIN ofly.result.second = OflyProtocolKeys
        /\ ofly.result.second[oflyHashMeth] =
              (IF ofly.hash0.v = <<"sha1">> THEN <<"SHA1">> ELSE <<"MD5">>)
        /\ ofly.result.first =
              param_sorting(Put(ofly.params, oflyApiSig,
                                HexDigest(ofly.hash_meth, ofly.base)))
        /\ \A i \in 1..Len(ofly.result.first) :
              <<ofly.result.first[i]>> \notin OflyProtocolKeys

-----------------------------------------------------------------------------
(* C15 *)

\* C15: OflySession.sign called with a hash method other than 'sha1' and
\* 'md5' ends with the configuration error (TypeError) and with nothing else
\* done: no clock read, no time format, no base string, no digest, no result;
\* and a call that ended with that error handed nothing to the transport.
C15_UnsupportedHashRaisesFirst ==
    /\ (/\ ofly.entry # "none"
        /\ ofly.hash0 \notin {HashStr(<<"sha1">>), HashStr(<<"md5">>)}) =>
          /\ ofly.pc \in {"select", "done"}
          /\ ofly.pc = "done" => ofly.outcome = "TypeError"
          /\ ofly.hash_meth = ofly.hash0
          /\ ofly.time_format = <<>>
          /\ ofly.base = <<>>
          /\ ~ofly.result.has
    /\ ofly.outcome = "TypeError" => ~ofly.wire.sent

\* sign('sha256') has raised TypeError.
C15_Witness ==
    /\ ofly.pc = "done"
    /\ ofly.entry = "sign"
    /\ ofly.hash0 = HashStr(<<"sha256">>)
    /\ ofly.outcome = "TypeError"
    /\ ~ofly.wire.sent

-----------------------------------------------------------------------------
(* C16 *)

\* C16: whatever microsecond the clock reads (0 to 999999), the timestamp
\* that sign formats has exactly three digits after the decimal point.
C16_ThreeFractionalDigits ==
    ofly.time_format # <<>> => Len(Fraction(Strftime(ofly.time_format))) = 3

-----------------------------------------------------------------------------
(* C17 *)

\* C17: a call of sign with 'sha1' or 'md5' digests the base string made of
\* the app secret, the URL path, '?', the sorted caller-parameter string
\* followed by '&' only when there are caller parameters, and the sorted
\* protocol-parameter string; oflyApiSig is no part of what is digested.
C17_BaseStringDigested ==
    (/\ ofly.pc = "done"
     /\ ofly.entry = "sign"
     /\ ofly.hash0 \in {HashStr(<<"sha1">>), HashStr(<<"md5">>)}) =>
        /\ ofly.base =
              ofly.app_secret \o UrlPath(ofly.url) \o <<"?">>
              \o (IF ofly.params # EmptyDict
                  THEN param_sorting(ofly.params) \o <<"&">> ELSE <<>>)
              \o param_sorting(ofly.result.second)
        /\ \A i \in 1..Len(ofly.base) : <<ofly.base[i]>> # oflyApiSig

-----------------------------------------------------------------------------
(* C18 *)

\* C18: once the loop over the optional parameters is over, an optional
\* parameter that the caller passed inside a pre-encoded string body is in
\* the protocol-parameter set with the caller's value and is no longer in
\* the body string, as for a pre-encoded query string.
C18_StringBodyOptionalMoved ==
    (pc[1] = "sign" /\ given[1].data.kind = "str") =>
        \A p \in Range(OptionalParams) \cap DOMAIN AsDict(given[1].data) :
            /\ p \in DOMAIN oauth_params.d
            /\ oauth_params.d[p] = AsDict(given[1].data)[p]
            /\ p \notin DOMAIN AsDict(req_kwargs[1].data)

-----------------------------------------------------------------------------
(* C19 *)

\* C19: with header_auth false, a method other than POST and PUT and the
\* query parameters passed as a pre-encoded string, a request whose signer
\* returned does not fail while the protocol parameters are merged: it
\* reaches the transport with every protocol parameter among the forwarded
\* query parameters.
C19_StringQueryStillSent ==
    (/\ pc[1] = "done"
     /\ signature.has
     /\ outcome[1] # "SignerError"
     /\ ~header_auth[1]
     /\ method[1] \notin BodyMethods
     /\ given[1].params.kind = "str") =>
        /\ outcome[1] # "AttributeError"
        /\ wire[1].sent
        /\ \A k \in DOMAIN own[1] : k \in DOMAIN AsDict(wire[1].kw.params)

-----------------------------------------------------------------------------
(* C20 *)

=============================================================================
